---- MODULE Spec2Model ----
(***************************************************************************)
(* A model of the tinyTalk runtime (tinytalk-lang/src/runtime.c): the      *)
(* value model, the blueprint registry, the instance store, the variable   *)
(* environment, the expression evaluator, the transaction manager and the  *)
(* when dispatcher.  Every operator keeps the name of the C function it    *)
(* is translated from.                                                     *)
(*                                                                         *)
(* Pointers: a pointer is a sequence of length at most one, NULL == <<>>   *)
(* and Ptr(x) == <<x>> for a pointer to a live object x.  Values are held  *)
(* by value (the C code copies a Value struct on assignment); the owned    *)
(* text of a String is the pointed-to character sequence.                  *)
(***************************************************************************)
EXTENDS Integers, Sequences, FiniteSets, TLC

(***************************************************************************)
(* Bounds of the model.                                                    *)
(***************************************************************************)
\* registry entries the model lets runtime_define_blueprint append
MaxBlueprints == 2
\* instances the model lets runtime_create_instance append
MaxInstances == 2
\* the same where the transaction calls are driven one by one
MaxTxnInstances == 1
\* bounds.max_operations: runtime_init sets 1000000 (runtime.c:89); the
\* model runs the same comparison against a limit it can reach
MaxOperations == 4
\* evaluating operations stay enabled while operation_count is at most
\* MaxOperations + OpSlack, so the counter passes the limit and stays finite
OpSlack == 1

\* calls the model lets run after a slot array is full: the write past the
\* array is made, what follows it is undefined and is not followed
MaxOverrun == 1

(***************************************************************************)
(* Pointers.                                                               *)
(***************************************************************************)
NULL == <<>>
Ptr(x) == <<x>>
Deref(p) == p[1]

(***************************************************************************)
(* double arithmetic.  A double is a fraction [n, d] in lowest terms with  *)
(* d >= 0; d = 0 encodes the IEEE specials: 1/0 is +infinity, -1/0 is      *)
(* -infinity and 0/0 is NaN.  The model's literals are small integers, for *)
(* which the IEEE results of + - * are exact; a quotient is kept as the    *)
(* exact fraction.  Signed zero is not distinguished.                      *)
(***************************************************************************)
Abs(i) == IF i < 0 THEN -i ELSE i
Sign(i) == IF i < 0 THEN -1 ELSE IF i > 0 THEN 1 ELSE 0

RECURSIVE Gcd(_, _)
Gcd(a, b) == IF b = 0 THEN a ELSE Gcd(b, a % b)

Norm(n, d) ==
    IF d = 0 THEN [n |-> Sign(n), d |-> 0]
    ELSE LET g == Gcd(Abs(n), Abs(d))
         IN  [n |-> Sign(d) * Sign(n) * (Abs(n) \div g), d |-> Abs(d) \div g]

Dbl(i) == [n |-> i, d |-> 1]

DAdd(a, b) ==
    IF a.d = 0 /\ b.d = 0
    THEN (IF a.n = b.n THEN a ELSE [n |-> 0, d |-> 0])
    ELSE Norm(a.n * b.d + b.n * a.d, a.d * b.d)
DSub(a, b) == DAdd(a, [n |-> -b.n, d |-> b.d])
DMul(a, b) == Norm(a.n * b.n, a.d * b.d)
DDiv(a, b) == Norm(a.n * b.d * Sign(IF b.n = 0 THEN 1 ELSE b.n), a.d * Abs(b.n))

(***************************************************************************)
(* Value: a tagged union.                                                  *)
(***************************************************************************)
value_number(n) == [type |-> "TYPE_NUMBER", number |-> n]
\* strdup(s): the Value owns a fresh copy of the text
value_string(s) == [type |-> "TYPE_STRING", string |-> Ptr(s)]
value_boolean(b) == [type |-> "TYPE_BOOLEAN", boolean |-> b]
value_null == [type |-> "TYPE_NULL"]
\* an Array value (built by collaborators; the evaluator never makes one)
value_array(items) == [type |-> "TYPE_ARRAY", items |-> Ptr(items)]

\* value_free(&v): the Value as the call leaves it
RECURSIVE value_free(_)
value_free(v) ==
    IF v.type = "TYPE_STRING" /\ v.string # NULL
    THEN [v EXCEPT !.string = NULL]
    ELSE IF v.type = "TYPE_ARRAY" /\ v.items # NULL
    THEN [v EXCEPT !.items = NULL]
    ELSE v

value_copy(v) ==
    CASE v.type = "TYPE_NUMBER"  -> [type |-> "TYPE_NUMBER", number |-> v.number]
      [] v.type = "TYPE_STRING"  -> [type |-> "TYPE_STRING", string |-> Ptr(Deref(v.string))]
      [] v.type = "TYPE_BOOLEAN" -> [type |-> "TYPE_BOOLEAN", boolean |-> v.boolean]
      [] v.type = "TYPE_NULL"    -> [type |-> "TYPE_NULL"]
      [] OTHER                   -> value_null

(***************************************************************************)
(* Syntax tree nodes handed to the runtime by the parser.  NoNode is the   *)
(* null ASTNode pointer.                                                   *)
(***************************************************************************)
NoNode == [type |-> "NULL"]
Literal(v) == [type |-> "NODE_LITERAL", value |-> v]
Identifier(name) == [type |-> "NODE_IDENTIFIER", name |-> name]
BinaryOp(op, l, r) == [type |-> "NODE_BINARY_OP", op |-> op, left |-> l, right |-> r]
Field(name, init) == [type |-> "NODE_FIELD", name |-> name, initial_value |-> init]
ActionSet(field, value) == [type |-> "NODE_ACTION_SET", field |-> field, value |-> value]
When(name, actions, msg) ==
    [type |-> "NODE_WHEN", name |-> name, actions |-> actions, result_message |-> msg]
BlueprintNode(name, fields, whens) ==
    [type |-> "NODE_BLUEPRINT", name |-> name, fields |-> fields,
     states |-> <<>>, whens |-> whens]

\* char buffer[1024] of the two concatenation branches
BufSize == 1024

\* snprintf(buffer, sizeof(buffer), ...) then value_string(buffer): at most
\* sizeof(buffer) - 1 characters of the formatted text are kept
snprintf(text) ==
    IF Len(text) > BufSize - 1 THEN SubSeq(text, 1, BufSize - 1) ELSE text

(***************************************************************************)
(* Variable Environment.                                                   *)
(***************************************************************************)
\* index of the first slot named name, 0 when there is none
RECURSIVE FindName(_, _, _)
FindName(names, name, i) ==
    IF i > Len(names) THEN 0
    ELSE IF names[i] = name THEN i
    ELSE FindName(names, name, i + 1)

\* runtime_get_variable: a pointer to the slot (its index), NULL when absent
runtime_get_variable(rt, name) ==
    LET i == FindName(rt.variable_names, name, 1)
    IN  IF i = 0 THEN NULL ELSE Ptr(i)

\* runtime_set_variable without the search for an existing slot
runtime_set_variable_AlwaysAppends(rt, name, value) ==
    [rt EXCEPT !.variable_names = Append(@, name),
               !.variables = Append(@, value)]

runtime_set_variable(rt, name, value) ==
    LET i == FindName(rt.variable_names, name, 1)
    IN  IF i # 0
        THEN [rt EXCEPT !.variables[i] = value]
        ELSE [rt EXCEPT !.variable_names = Append(@, name),
                        !.variables = Append(@, value)]

(***************************************************************************)
(* Expression Evaluator.  The result is the Value and the runtime after    *)
(* the call (only operation_count changes).                                *)
(***************************************************************************)
IsPlus(op) == op = "TOKEN_PLUS_OP" \/ op = "TOKEN_PLUS"
BothNumbers(l, r) == l.type = "TYPE_NUMBER" /\ r.type = "TYPE_NUMBER"
TextOf(v) == IF v.type = "TYPE_STRING" THEN Deref(v.string) ELSE <<>>

\* the operator switch with & joining any operands the way + joins Strings
ApplyBinaryOp_AmpersandJoinsAny(op, left, right) ==
    IF IsPlus(op) \/ op = "TOKEN_AMPERSAND"
    THEN IF IsPlus(op) /\ BothNumbers(left, right)
         THEN value_number(DAdd(left.number, right.number))
         ELSE IF left.type = "TYPE_STRING" \/ right.type = "TYPE_STRING"
         THEN value_string(snprintf(TextOf(left) \o
                                    (IF IsPlus(op) THEN <<" ">> ELSE <<>>) \o
                                    TextOf(right)))
         ELSE value_null
    ELSE IF op = "TOKEN_MINUS"
    THEN IF BothNumbers(left, right)
         THEN value_number(DSub(left.number, right.number)) ELSE value_null
    ELSE IF op = "TOKEN_TIMES"
    THEN IF BothNumbers(left, right)
         THEN value_number(DMul(left.number, right.number)) ELSE value_null
    ELSE IF op = "TOKEN_DIV"
    THEN IF BothNumbers(left, right)
         THEN value_number(DDiv(left.number, right.number)) ELSE value_null
    ELSE value_null

\* the switch on the operator of a NODE_BINARY_OP, operands evaluated
ApplyBinaryOp(op, left, right) ==
    IF IsPlus(op)
    THEN IF BothNumbers(left, right)
         THEN value_number(DAdd(left.number, right.number))
         ELSE IF left.type = "TYPE_STRING" \/ right.type = "TYPE_STRING"
         THEN value_string(snprintf(TextOf(left) \o <<" ">> \o TextOf(right)))
         ELSE value_null
    ELSE IF op = "TOKEN_AMPERSAND"
    THEN IF left.type = "TYPE_STRING" /\ right.type = "TYPE_STRING"
         THEN value_string(snprintf(Deref(left.string) \o Deref(right.string)))
         ELSE value_null
    ELSE IF op = "TOKEN_MINUS"
    THEN IF BothNumbers(left, right)
         THEN value_number(DSub(left.number, right.number)) ELSE value_null
    ELSE IF op = "TOKEN_TIMES"
    THEN IF BothNumbers(left, right)
         THEN value_number(DMul(left.number, right.number)) ELSE value_null
    ELSE IF op = "TOKEN_DIV"
    THEN IF BothNumbers(left, right)
         THEN value_number(DDiv(left.number, right.number)) ELSE value_null
    ELSE value_null

\* case NODE_IDENTIFIER returning the slot's Value itself (return *var)
IdentifierResult_NoCopy(rt, name) ==
    LET var == runtime_get_variable(rt, name)
    IN  IF var # NULL
        THEN [value |-> rt.variables[Deref(var)], shares |-> var]
        ELSE [value |-> value_null, shares |-> NULL]

\* case NODE_IDENTIFIER: the Value returned, and the environment slot whose
\* text storage that Value shares (NULL: value_copy gave it storage of its own)
IdentifierResult(rt, name) ==
    LET var == runtime_get_variable(rt, name)
    IN  IF var # NULL
        THEN [value |-> value_copy(rt.variables[Deref(var)]), shares |-> NULL]
        ELSE [value |-> value_null, shares |-> NULL]

\* the test that follows rt->operation_count++
BoundExceeded(rt) == rt.operation_count > rt.bounds.max_operations

RECURSIVE runtime_evaluate_expression(_, _)
runtime_evaluate_expression(rt, expr) ==
    IF expr = NoNode THEN [rt |-> rt, value |-> value_null]
    ELSE LET rt1 == [rt EXCEPT !.operation_count = @ + 1]
         IN  IF BoundExceeded(rt1) THEN [rt |-> rt1, value |-> value_null]
             ELSE CASE expr.type = "NODE_LITERAL" ->
                         [rt |-> rt1, value |-> value_copy(expr.value)]
                    [] expr.type = "NODE_IDENTIFIER" ->
                         [rt |-> rt1, value |-> IdentifierResult(rt1, expr.name).value]
                    [] expr.type = "NODE_BINARY_OP" ->
                         LET l == runtime_evaluate_expression(rt1, expr.left)
                             r == runtime_evaluate_expression(l.rt, expr.right)
                         IN  [rt |-> r.rt,
                              value |-> ApplyBinaryOp(expr.op, l.value, r.value)]
                    [] OTHER -> [rt |-> rt1, value |-> value_null]

runtime_evaluate_condition(rt, condition) ==
    IF condition = NoNode THEN [rt |-> rt, value |-> TRUE]
    ELSE LET res == runtime_evaluate_expression(rt, condition)
         IN  [rt |-> res.rt,
              value |-> \/ (res.value.type = "TYPE_BOOLEAN" /\ res.value.boolean)
                        \/ (res.value.type = "TYPE_NUMBER" /\ res.value.number # Dbl(0))]

(***************************************************************************)
(* Allocation.  calloc(0, size) is implementation-defined: it returns a    *)
(* null pointer or a unique pointer.  calloc_zero_null is the choice the   *)
(* C library of the build makes; it is fixed for a run.                    *)
(***************************************************************************)
VARIABLES
    rt,                \* the Runtime struct and the objects it owns
    calloc_zero_null,  \* TRUE when calloc(0, size) returns NULL in this build
    last,              \* the operation just performed and what it returned
    txn,               \* per instance: the field vector at the last begin on
                       \* an idle instance and the field-sets applied since
    assigned           \* per name: the Value of the latest runtime_set_variable

vars == <<rt, calloc_zero_null, last, txn, assigned>>

\* an all-zero Value; every slot is assigned before it is read
ZeroValue == [type |-> "ZERO"]
calloc(count) ==
    IF count = 0 /\ calloc_zero_null THEN NULL
    ELSE Ptr([i \in 1..count |-> ZeroValue])

(***************************************************************************)
(* Blueprint Registry and Instance Store.  A Blueprint* is the index of    *)
(* the blueprint in rt.blueprints, an Instance* the index of the instance  *)
(* in rt.instances.                                                        *)
(***************************************************************************)
\* slots of rt->blueprints: calloc(64, sizeof(Blueprint*)) in runtime_init
BlueprintSlots == 64
\* slots of rt->instances: calloc(64, sizeof(Instance*)) at the first
\* runtime_create_instance
InstanceSlots == 64

runtime_init ==
    [instances |-> <<>>,
     blueprints |-> <<>>,
     variable_names |-> <<>>,
     variables |-> <<>>,
     bounds |-> [max_operations |-> MaxOperations],
     operation_count |-> 0,
     recursion_depth |-> 0]

\* the result is the runtime after the call and the Blueprint* returned
runtime_define_blueprint(r, node) ==
    IF node.type # "NODE_BLUEPRINT" THEN [rt |-> r, bp |-> NULL]
    ELSE LET bp == [name |-> node.name, fields |-> node.fields,
                    states |-> node.states, whens |-> node.whens]
         IN  [rt |-> [r EXCEPT !.blueprints = Append(@, bp)],
              bp |-> Ptr(Len(r.blueprints) + 1)]

\* the lookup loop without its break: the last match from i on
RECURSIVE FindBlueprint_LastMatch(_, _, _)
FindBlueprint_LastMatch(blueprints, blueprint_name, i) ==
    IF i > Len(blueprints) THEN NULL
    ELSE LET later == FindBlueprint_LastMatch(blueprints, blueprint_name, i + 1)
         IN  IF later # NULL THEN later
             ELSE IF blueprints[i].name = blueprint_name THEN Ptr(i) ELSE NULL

\* the lookup loop of runtime_create_instance: the first match from i on
RECURSIVE FindBlueprint(_, _, _)
FindBlueprint(blueprints, blueprint_name, i) ==
    IF i > Len(blueprints) THEN NULL
    ELSE IF blueprints[i].name = blueprint_name THEN Ptr(i)
    ELSE FindBlueprint(blueprints, blueprint_name, i + 1)

\* the initialisation loop with the field declared just before visible to
\* an initializer under its name
RECURSIVE InitFields_SeesEarlierField(_, _, _, _)
InitFields_SeesEarlierField(r, fields, i, values) ==
    IF i > Len(fields) THEN [rt |-> r, values |-> values]
    ELSE LET env == IF i > 1
                    THEN runtime_set_variable(r, fields[i - 1].name, values[1][i - 1])
                    ELSE r
             res == runtime_evaluate_expression(env, fields[i].initial_value)
         IN  InitFields_SeesEarlierField(
                 [r EXCEPT !.operation_count = res.rt.operation_count],
                 fields, i + 1, [values EXCEPT ![1][i] = res.value])

\* the initialisation loop: fields i.. evaluated in order into values
RECURSIVE InitFields(_, _, _, _)
InitFields(r, fields, i, values) ==
    IF i > Len(fields) THEN [rt |-> r, values |-> values]
    ELSE LET res == runtime_evaluate_expression(r, fields[i].initial_value)
         IN  InitFields(res.rt, fields, i + 1, [values EXCEPT ![1][i] = res.value])

\* runtime_create_instance counting the failed lookup as an operation
runtime_create_instance_CountsMiss(r, blueprint_name) ==
    LET bp == FindBlueprint(r.blueprints, blueprint_name, 1)
    IN  IF bp = NULL
        THEN [rt |-> [r EXCEPT !.operation_count = @ + 1], inst |-> NULL]
        ELSE LET fields == r.blueprints[Deref(bp)].fields
                 init == InitFields(r, fields, 1, calloc(Len(fields)))
                 inst == [blueprint |-> Deref(bp),
                          field_values |-> init.values,
                          current_state |-> NULL,
                          in_transaction |-> FALSE,
                          field_snapshot |-> NULL]
             IN  [rt |-> [init.rt EXCEPT !.instances = Append(@, inst)],
                  inst |-> Ptr(Len(r.instances) + 1)]

\* runtime_create_instance with the operation counter restarted per call
runtime_create_instance_ResetsCount(r, blueprint_name) ==
    LET bp == FindBlueprint(r.blueprints, blueprint_name, 1)
    IN  IF bp = NULL THEN [rt |-> r, inst |-> NULL]
        ELSE LET fields == r.blueprints[Deref(bp)].fields
                 init == InitFields([r EXCEPT !.operation_count = 0],
                                    fields, 1, calloc(Len(fields)))
                 inst == [blueprint |-> Deref(bp),
                          field_values |-> init.values,
                          current_state |-> NULL,
                          in_transaction |-> FALSE,
                          field_snapshot |-> NULL]
             IN  [rt |-> [init.rt EXCEPT !.instances = Append(@, inst)],
                  inst |-> Ptr(Len(r.instances) + 1)]

\* the result is the runtime after the call and the Instance* returned
runtime_create_instance(r, blueprint_name) ==
    LET bp == FindBlueprint(r.blueprints, blueprint_name, 1)
    IN  IF bp = NULL THEN [rt |-> r, inst |-> NULL]
        ELSE LET fields == r.blueprints[Deref(bp)].fields
                 init == InitFields(r, fields, 1, calloc(Len(fields)))
                 inst == [blueprint |-> Deref(bp),
                          field_values |-> init.values,
                          current_state |-> NULL,
                          in_transaction |-> FALSE,
                          field_snapshot |-> NULL]
             IN  [rt |-> [init.rt EXCEPT !.instances = Append(@, inst)],
                  inst |-> Ptr(Len(r.instances) + 1)]

field_count(r, inst) == Len(r.blueprints[r.instances[inst].blueprint].fields)

\* the field vector of an instance, whether or not its zero-length
\* allocation is a null pointer
FieldVector(instance) ==
    IF instance.field_values = NULL THEN <<>> ELSE Deref(instance.field_values)

(***************************************************************************)
(* Transaction Manager.  Each operator takes the runtime and an Instance*  *)
(* and yields the runtime after the call.                                  *)
(***************************************************************************)
runtime_begin_transaction(r, inst) ==
    LET n == field_count(r, inst)
        old == r.instances[inst]
        fresh == calloc(n)
        snap == IF n = 0 THEN fresh
                ELSE Ptr([i \in 1..n |-> value_copy(Deref(old.field_values)[i])])
    IN  [r EXCEPT !.instances[inst].in_transaction = TRUE,
                  !.instances[inst].field_snapshot = snap]

\* runtime_commit_transaction without inst->field_snapshot = NULL
runtime_commit_transaction_KeepsSnapshot(r, inst) ==
    [r EXCEPT !.instances[inst].in_transaction = FALSE]

\* runtime_commit_transaction without inst->in_transaction = false
runtime_commit_transaction_StaysOpen(r, inst) ==
    [r EXCEPT !.instances[inst].field_snapshot = NULL]

runtime_commit_transaction(r, inst) ==
    [r EXCEPT !.instances[inst].in_transaction = FALSE,
              !.instances[inst].field_snapshot = NULL]

runtime_rollback_transaction(r, inst) ==
    LET old == r.instances[inst]
        n == field_count(r, inst)
    IN  IF ~old.in_transaction \/ old.field_snapshot = NULL THEN r
        ELSE [r EXCEPT
                !.instances[inst].field_values =
                    IF n = 0 THEN @
                    ELSE Ptr([i \in 1..n |-> value_copy(Deref(old.field_snapshot)[i])]),
                !.instances[inst].field_snapshot = NULL,
                !.instances[inst].in_transaction = FALSE]

(***************************************************************************)
(* When Dispatcher.                                                        *)
(***************************************************************************)
\* the field lookup loop of a field-set: the first field named name from k
\* on, 0 when no field has that name
RECURSIVE FindField(_, _, _)
FindField(fields, name, k) ==
    IF k > Len(fields) THEN 0
    ELSE IF fields[k].name = name THEN k
    ELSE FindField(fields, name, k + 1)

\* a field-set that stores into the last field when no field has the name
ExecuteAction_UnknownHitsLastField(r, inst, action) ==
    IF action.type # "NODE_ACTION_SET" THEN r
    ELSE LET res == runtime_evaluate_expression(r, action.value)
             fields == res.rt.blueprints[res.rt.instances[inst].blueprint].fields
             k == FindField(fields, action.field, 1)
         IN  IF k = 0
             THEN (IF Len(fields) = 0 THEN res.rt
                   ELSE [res.rt EXCEPT !.instances[inst].field_values[1][Len(fields)] =
                                           res.value])
             ELSE [res.rt EXCEPT !.instances[inst].field_values[1][k] = res.value]

\* a field-set that stores into the field of every instance of the blueprint
ExecuteAction_WritesAllInstances(r, inst, action) ==
    IF action.type # "NODE_ACTION_SET" THEN r
    ELSE LET res == runtime_evaluate_expression(r, action.value)
             bp == res.rt.instances[inst].blueprint
             k == FindField(res.rt.blueprints[bp].fields, action.field, 1)
         IN  IF k = 0 THEN res.rt
             ELSE [res.rt EXCEPT !.instances =
                      [i \in 1..Len(@) |->
                          IF @[i].blueprint = bp
                          THEN [@[i] EXCEPT !.field_values[1][k] = res.value]
                          ELSE @[i]]]

\* the body of the action loop for one action
ExecuteAction(r, inst, action) ==
    IF action.type # "NODE_ACTION_SET" THEN r
    ELSE LET res == runtime_evaluate_expression(r, action.value)
             k == FindField(res.rt.blueprints[res.rt.instances[inst].blueprint].fields,
                            action.field, 1)
         IN  IF k = 0 THEN res.rt
             ELSE [res.rt EXCEPT !.instances[inst].field_values[1][k] = res.value]

\* the action loop run from the last action to the first
RECURSIVE ExecuteActions_ReverseOrder(_, _, _, _)
ExecuteActions_ReverseOrder(r, inst, actions, j) ==
    IF j > Len(actions) THEN r
    ELSE ExecuteAction(ExecuteActions_ReverseOrder(r, inst, actions, j + 1),
                       inst, actions[j])

\* the action loop: actions j.. in declaration order
RECURSIVE ExecuteActions(_, _, _, _)
ExecuteActions(r, inst, actions, j) ==
    IF j > Len(actions) THEN r
    ELSE ExecuteActions(ExecuteAction(r, inst, actions[j]), inst, actions, j + 1)

\* the handler lookup loop: the first when-handler named when_name from i
\* on, 0 when there is none
RECURSIVE FindWhen(_, _, _)
FindWhen(whens, when_name, i) ==
    IF i > Len(whens) THEN 0
    ELSE IF whens[i].name = when_name THEN i
    ELSE FindWhen(whens, when_name, i + 1)

\* a dispatcher that rolls back when the operation bound was exceeded
WhenTransactionCalls_RollbackOnExceed(r_after_actions) ==
    IF r_after_actions.operation_count > r_after_actions.bounds.max_operations
    THEN <<"begin", "rollback">>
    ELSE <<"begin", "commit">>

\* the transaction calls the dispatcher makes for a matched handler, in
\* order, given the runtime as the actions left it
WhenTransactionCalls(r_after_actions) == <<"begin", "commit">>

\* one transaction call on an instance
TransactionCall(r, inst, call) ==
    CASE call = "begin"    -> runtime_begin_transaction(r, inst)
      [] call = "commit"   -> runtime_commit_transaction(r, inst)
      [] call = "rollback" -> runtime_rollback_transaction(r, inst)

\* a dispatcher that begins the transaction before it looks the handler up
runtime_execute_when_BeginBeforeLookup(r, inst, when_name) ==
    LET begun == runtime_begin_transaction(r, inst)
        whens == r.blueprints[r.instances[inst].blueprint].whens
        i == FindWhen(whens, when_name, 1)
    IN  IF i = 0
        THEN [rt |-> begun,
              result |-> [success |-> FALSE, message |-> Ptr("When clause not found"),
                          value |-> value_null],
              calls |-> <<>>]
        ELSE LET acted == ExecuteActions(begun, inst, whens[i].actions, 1)
             IN  [rt |-> runtime_commit_transaction(acted, inst),
                  result |-> [success |-> TRUE,
                              message |-> IF whens[i].result_message # NULL
                                          THEN Ptr(Deref(whens[i].result_message))
                                          ELSE Ptr("When clause executed successfully"),
                              value |-> value_null],
                  calls |-> <<"begin", "commit">>]

\* the result is the runtime after the call, the Result returned and the
\* transaction calls made on the instance
runtime_execute_when(r, inst, when_name) ==
    LET whens == r.blueprints[r.instances[inst].blueprint].whens
        i == FindWhen(whens, when_name, 1)
    IN  IF i = 0
        THEN [rt |-> r,
              result |-> [success |-> FALSE, message |-> Ptr("When clause not found"),
                          value |-> value_null],
              calls |-> <<>>]
        ELSE LET when == whens[i]
                 begun == runtime_begin_transaction(r, inst)
                 acted == ExecuteActions(begun, inst, when.actions, 1)
                 calls == WhenTransactionCalls(acted)
                 done == TransactionCall(acted, inst, calls[2])
             IN  [rt |-> done,
                  result |-> [success |-> TRUE,
                              message |-> IF when.result_message # NULL
                                          THEN Ptr(Deref(when.result_message))
                                          ELSE Ptr("When clause executed successfully"),
                              value |-> value_null],
                  calls |-> calls]

\* the result is the runtime after the call and the Result returned; a
\* NULL message is the null pointer result.message starts as
runtime_execute(r, node) ==
    IF node = NoNode
    THEN [rt |-> r, result |-> [success |-> FALSE,
                                message |-> Ptr("No AST node to execute"),
                                value |-> value_null]]
    ELSE IF node.type = "NODE_BLUEPRINT"
    THEN LET def == runtime_define_blueprint(r, node)
         IN  IF def.bp # NULL
             THEN [rt |-> def.rt,
                   result |-> [success |-> TRUE,
                               message |-> Ptr("Blueprint defined successfully"),
                               value |-> value_null]]
             ELSE [rt |-> def.rt,
                   result |-> [success |-> FALSE,
                               message |-> Ptr("Failed to define blueprint"),
                               value |-> value_null]]
    ELSE [rt |-> r, result |-> [success |-> TRUE, message |-> NULL,
                                value |-> value_null]]

(***************************************************************************)
(* Inputs: the syntax trees, names and values the callers hand in.         *)
(***************************************************************************)
Num(i) == Literal(value_number(Dbl(i)))
Str(text) == Literal(value_string(text))

\* an action node of a kind other than field-set
OtherAction == [type |-> "NODE_ACTION_OTHER"]

\* blueprint P, first definition: b's initializer names field a; handler go
\* is declared twice and writes an undeclared field between two declared
\* ones; handler miss writes undeclared fields only
NodeP1 ==
    BlueprintNode("P",
        <<Field("a", Num(1)),
          Field("b", BinaryOp("TOKEN_PLUS", Identifier("a"), Num(1)))>>,
        <<When("go", <<ActionSet("b", Num(2)),
                       ActionSet("zz", Num(5)),
                       ActionSet("a", BinaryOp("TOKEN_AMPERSAND", Str(<<"s">>), Identifier("x")))>>,
               NULL),
          When("miss", <<ActionSet("zz", Num(5))>>, Ptr("ok")),
          When("go", <<ActionSet("a", Num(9))>>, NULL)>>)

\* blueprint P, second definition: two fields share the name a; handler go
\* writes an undeclared field and has an action that is no field-set;
\* handler twice writes c two times
NodeP2 ==
    BlueprintNode("P",
        <<Field("a", Str(<<"t">>)), Field("a", NoNode), Field("c", NoNode)>>,
        <<When("go", <<ActionSet("a", Num(0)), ActionSet("zz", Num(5)), OtherAction,
                       ActionSet("c", Identifier("x"))>>,
               Ptr("done")),
          When("twice", <<ActionSet("c", Num(1)), ActionSet("c", Identifier("x"))>>,
               NULL)>>)

\* blueprint E: no fields
NodeE ==
    BlueprintNode("E", <<>>, <<When("go", <<ActionSet("a", Num(1))>>, NULL)>>)

BlueprintNodes == {NodeP1, NodeP2, NodeE}
\* what runtime_execute may be handed: a blueprint, another node, no node
ExecuteNodes == BlueprintNodes \cup {Num(1), NoNode}
BlueprintNames == {"P", "E", "Q"}
WhenNames == {"go", "miss", "twice"}
VariableNames == {"x", "a"}
VariableValues == {value_number(Dbl(1)), value_string(<<"s">>)}

\* the binary operators the evaluator knows, and one it does not
Operators ==
    {"TOKEN_PLUS_OP", "TOKEN_PLUS", "TOKEN_AMPERSAND", "TOKEN_MINUS",
     "TOKEN_TIMES", "TOKEN_DIV", "TOKEN_EQUALS"}
\* literal operands of every kind the evaluator can be handed
OperandValues ==
    {value_number(Dbl(0)), value_number(Dbl(2)), value_string(<<"s">>),
     value_string(<<>>), value_boolean(TRUE), value_null}
\* a text that fills the concatenation buffer: sizeof(buffer) - 1 characters
LongText == [i \in 1..(BufSize - 1) |-> "x"]
\* an Array literal
ArrayLiteral == Literal(value_array(<<value_number(Dbl(1))>>))
\* what runtime_evaluate_expression may be handed
Expressions ==
    {BinaryOp(op, Literal(l), Literal(r)) :
        op \in Operators, l \in OperandValues, r \in OperandValues}
    \cup {Literal(v) : v \in OperandValues}
    \cup {Identifier(name) : name \in VariableNames}
    \cup {BinaryOp("TOKEN_AMPERSAND", Str(LongText), Str(<<>>)),
          BinaryOp("TOKEN_AMPERSAND", Str(LongText), Str(<<"y">>)),
          BinaryOp("TOKEN_PLUS", Str(LongText), Str(<<>>)),
          BinaryOp("TOKEN_TIMES", BinaryOp("TOKEN_PLUS", Num(1), Identifier("x")), Num(2)),
          ArrayLiteral, [type |-> "NODE_FIELD"], NoNode}

\* the field-set actions declared by the handlers of a blueprint
RECURSIVE ActionsOf(_, _)
ActionsOf(whens, i) ==
    IF i > Len(whens) THEN {}
    ELSE {whens[i].actions[j] : j \in {k \in 1..Len(whens[i].actions) :
                                         whens[i].actions[k].type = "NODE_ACTION_SET"}}
         \cup ActionsOf(whens, i + 1)

Instances == 1..Len(rt.instances)
MayEvaluate == rt.operation_count <= MaxOperations + OpSlack
IsIdle(instance) == ~instance.in_transaction /\ instance.field_snapshot = NULL

(***************************************************************************)
(* The state machine.  last is the caller's record of the call it just     *)
(* made: the operation, its arguments and what it returned.                *)
(***************************************************************************)
NoCall ==
    [op |-> "runtime_init",
     inst |-> 0,             \* the Instance* argument or result, 0 for none
     name |-> "",            \* the name argument
     node |-> NoNode,        \* the ASTNode* argument
     success |-> TRUE,       \* result.success
     message |-> NULL,       \* result.message
     calls |-> <<>>,         \* the transaction calls a dispatch made
     open_before |-> FALSE,  \* in_transaction of the instance at the call
     ptr |-> NULL,           \* a Value* returned, or the slot a returned
                             \* Value shares storage with
     value |-> value_null]   \* a Value returned or handed in

NoTxn == [tracked |-> FALSE, pre |-> <<>>, sets |-> 0]

Init ==
    /\ rt = runtime_init
    /\ calloc_zero_null \in BOOLEAN
    /\ last = NoCall
    /\ txn = <<>>
    /\ assigned = [name \in VariableNames |-> NULL]

Execute(node) ==
    /\ node.type = "NODE_BLUEPRINT" => Len(rt.blueprints) < MaxBlueprints
    /\ LET res == runtime_execute(rt, node)
       IN  /\ rt' = res.rt
           /\ last' = [NoCall EXCEPT !.op = "runtime_execute", !.node = node,
                                     !.success = res.result.success,
                                     !.message = res.result.message]
    /\ UNCHANGED <<calloc_zero_null, txn, assigned>>

CreateInstance(blueprint_name, limit) ==
    /\ Len(rt.instances) < limit
    /\ MayEvaluate
    /\ LET res == runtime_create_instance(rt, blueprint_name)
       IN  /\ rt' = res.rt
           /\ last' = [NoCall EXCEPT !.op = "runtime_create_instance",
                                     !.name = blueprint_name,
                                     !.inst = IF res.inst = NULL THEN 0 ELSE Deref(res.inst),
                                     !.success = res.inst # NULL]
           /\ txn' = IF res.inst = NULL THEN txn ELSE Append(txn, NoTxn)
    /\ UNCHANGED <<calloc_zero_null, assigned>>

Begin(inst) ==
    /\ rt' = runtime_begin_transaction(rt, inst)
    /\ last' = [NoCall EXCEPT !.op = "runtime_begin_transaction", !.inst = inst,
                              !.open_before = rt.instances[inst].in_transaction]
    /\ txn' = [txn EXCEPT ![inst] =
                 IF IsIdle(rt.instances[inst])
                 THEN [tracked |-> TRUE, pre |-> FieldVector(rt.instances[inst]), sets |-> 0]
                 ELSE NoTxn]
    /\ UNCHANGED <<calloc_zero_null, assigned>>

Commit(inst) ==
    /\ rt' = runtime_commit_transaction(rt, inst)
    /\ last' = [NoCall EXCEPT !.op = "runtime_commit_transaction", !.inst = inst,
                              !.open_before = rt.instances[inst].in_transaction]
    /\ txn' = [txn EXCEPT ![inst].tracked = FALSE]
    /\ UNCHANGED <<calloc_zero_null, assigned>>

Rollback(inst) ==
    /\ rt' = runtime_rollback_transaction(rt, inst)
    /\ last' = [NoCall EXCEPT !.op = "runtime_rollback_transaction", !.inst = inst,
                              !.open_before = rt.instances[inst].in_transaction]
    /\ UNCHANGED <<calloc_zero_null, txn, assigned>>

\* one field-set applied to an instance whose transaction is open
SetField(inst, action) ==
    /\ rt.instances[inst].in_transaction
    /\ MayEvaluate
    /\ rt' = ExecuteAction(rt, inst, action)
    /\ last' = [NoCall EXCEPT !.op = "field_set", !.inst = inst,
                              !.open_before = TRUE]
    /\ txn' = [txn EXCEPT ![inst].sets = IF txn[inst].tracked THEN @ + 1 ELSE @]
    /\ UNCHANGED <<calloc_zero_null, assigned>>

ExecuteWhen(inst, when_name) ==
    /\ MayEvaluate
    /\ LET res == runtime_execute_when(rt, inst, when_name)
       IN  /\ rt' = res.rt
           /\ last' = [NoCall EXCEPT !.op = "runtime_execute_when", !.inst = inst,
                                     !.name = when_name,
                                     !.success = res.result.success,
                                     !.message = res.result.message,
                                     !.calls = res.calls,
                                     !.open_before = rt.instances[inst].in_transaction]
           /\ txn' = IF res.calls = <<>> THEN txn ELSE [txn EXCEPT ![inst] = NoTxn]
    /\ UNCHANGED <<calloc_zero_null, assigned>>

SetVariable(name, value) ==
    /\ rt' = runtime_set_variable(rt, name, value)
    /\ last' = [NoCall EXCEPT !.op = "runtime_set_variable", !.name = name,
                              !.value = value,
                              !.ptr = runtime_get_variable(rt, name)]
    /\ assigned' = [assigned EXCEPT ![name] = Ptr(value)]
    /\ UNCHANGED <<calloc_zero_null, txn>>

GetVariable(name) ==
    /\ last' = [NoCall EXCEPT !.op = "runtime_get_variable", !.name = name,
                              !.ptr = runtime_get_variable(rt, name)]
    /\ UNCHANGED <<rt, calloc_zero_null, txn, assigned>>

\* the caller stores a Value through the Value* runtime_get_variable gave it
WriteThroughPointer(value) ==
    /\ last.op \in {"runtime_get_variable", "caller_write"}
    /\ last.ptr # NULL
    /\ rt' = [rt EXCEPT !.variables[Deref(last.ptr)] = value]
    /\ last' = [last EXCEPT !.op = "caller_write", !.value = value]
    /\ UNCHANGED <<calloc_zero_null, txn, assigned>>

\* the evaluator looks an identifier up on behalf of a caller
EvaluateIdentifier(name) ==
    /\ MayEvaluate
    /\ LET res == runtime_evaluate_expression(rt, Identifier(name))
           shares == IF BoundExceeded(res.rt) THEN NULL
                     ELSE IdentifierResult(res.rt, name).shares
       IN  /\ rt' = res.rt
           /\ last' = [NoCall EXCEPT !.op = "runtime_evaluate_expression",
                                     !.name = name, !.node = Identifier(name),
                                     !.value = res.value, !.ptr = shares]
    /\ UNCHANGED <<calloc_zero_null, txn, assigned>>

\* the caller releases the Value the evaluator returned: value_free(&v)
\* frees the text v points to, which is a slot's text when v shares it
ReleaseValue ==
    /\ last.op = "runtime_evaluate_expression"
    /\ rt' = IF last.ptr = NULL THEN rt
             ELSE [rt EXCEPT !.variables[Deref(last.ptr)] = value_free(@)]
    /\ last' = [last EXCEPT !.op = "caller_release", !.value = value_free(@)]
    /\ UNCHANGED <<calloc_zero_null, txn, assigned>>

\* a caller evaluates an expression
Evaluate(expr) ==
    /\ MayEvaluate
    /\ LET res == runtime_evaluate_expression(rt, expr)
       IN  /\ rt' = res.rt
           /\ last' = [NoCall EXCEPT !.op = "runtime_evaluate_expression",
                                     !.node = expr, !.value = res.value]
    /\ UNCHANGED <<calloc_zero_null, txn, assigned>>

\* runtime_execute of a blueprint node while the registry holds fewer than
\* limit entries
ExecuteBlueprint(node, limit) ==
    /\ node.type = "NODE_BLUEPRINT"
    /\ Len(rt.blueprints) < limit
    /\ LET res == runtime_execute(rt, node)
       IN  /\ rt' = res.rt
           /\ last' = [NoCall EXCEPT !.op = "runtime_execute", !.node = node,
                                     !.success = res.result.success,
                                     !.message = res.result.message]
    /\ UNCHANGED <<calloc_zero_null, txn, assigned>>

\* the transaction manager driven directly, beside the dispatcher
NextTxn ==
    \/ \E node \in BlueprintNodes : Execute(node)
    \/ \E name \in BlueprintNames : CreateInstance(name, MaxTxnInstances)
    \/ \E inst \in Instances : Begin(inst)
    \/ \E inst \in Instances : Commit(inst)
    \/ \E inst \in Instances : Rollback(inst)
    \/ \E inst \in Instances :
         \E action \in ActionsOf(rt.blueprints[rt.instances[inst].blueprint].whens, 1) :
            SetField(inst, action)
    \/ \E inst \in Instances : \E name \in WhenNames : ExecuteWhen(inst, name)

\* the dispatcher as the only caller of the transaction manager
NextDispatch ==
    \/ \E node \in ExecuteNodes : Execute(node)
    \/ \E name \in BlueprintNames : CreateInstance(name, MaxInstances)
    \/ \E inst \in Instances : \E name \in WhenNames : ExecuteWhen(inst, name)
    \/ \E name \in VariableNames : \E value \in VariableValues : SetVariable(name, value)

\* the Variable Environment and its callers
NextEnv ==
    \/ \E name \in VariableNames : \E value \in VariableValues : SetVariable(name, value)
    \/ \E name \in VariableNames \cup {"none"} : GetVariable(name)
    \/ \E value \in VariableValues \cup {value_null} : WriteThroughPointer(value)
    \/ \E name \in VariableNames \cup {"none"} : EvaluateIdentifier(name)
    \/ ReleaseValue

\* the Expression Evaluator and its callers
NextEval ==
    \/ \E name \in VariableNames : \E value \in VariableValues : SetVariable(name, value)
    \/ \E expr \in Expressions : Evaluate(expr)

\* the registry and the instance store filled to their slot arrays and one
\* call beyond
NextCapacity ==
    \/ ExecuteBlueprint(NodeE, BlueprintSlots + MaxOverrun)
    \/ CreateInstance("E", InstanceSlots + MaxOverrun)

Next == NextTxn \/ NextDispatch \/ NextEnv \/ NextEval \/ NextCapacity

Spec == Init /\ [][Next]_vars
SpecTxn == Init /\ [][NextTxn]_vars
SpecDispatch == Init /\ [][NextDispatch]_vars
SpecEnv == Init /\ [][NextEnv]_vars
SpecEval == Init /\ [][NextEval]_vars
SpecCapacity == Init /\ [][NextCapacity]_vars

(***************************************************************************)
(* Properties.                                                             *)
(***************************************************************************)
InstanceOf(i) == rt.instances[i]
BlueprintOf(i) == rt.blueprints[rt.instances[i].blueprint]

\* C1: in every reachable state of every instance the field snapshot is
\* present if and only if in_transaction is true.
C1_SnapshotIffInTransaction ==
    \A i \in Instances :
        (InstanceOf(i).field_snapshot # NULL) <=> InstanceOf(i).in_transaction

\* C2: begin on an idle instance, then N >= 0 field-sets, then rollback:
\* the field vector equals the one before begin, field by field, and the
\* instance is idle with no snapshot.
C2_RollbackRestores ==
    (/\ last.op = "runtime_rollback_transaction"
     /\ txn[last.inst].tracked)
    => /\ FieldVector(InstanceOf(last.inst)) = txn[last.inst].pre
       /\ ~InstanceOf(last.inst).in_transaction
       /\ InstanceOf(last.inst).field_snapshot = NULL

\* the handlers of instance i's blueprint, and whether one is named name
WhensOf(i) == BlueprintOf(i).whens
HasHandler(i, name) == \E j \in 1..Len(WhensOf(i)) : WhensOf(i)[j].name = name
\* the last call was an execute_when that names a handler of the instance
Matched == last.op = "runtime_execute_when" /\ HasHandler(last.inst, last.name)

\* C3: when execute_when is the only caller of the transaction manager,
\* every call that matches a handler begins on an idle instance, commits
\* exactly once, never rolls back, and leaves the instance idle.
C3_DispatchPairsBeginCommit ==
    /\ \A i \in Instances : IsIdle(InstanceOf(i))
    /\ Matched => /\ ~last.open_before
                  /\ last.calls = <<"begin", "commit">>
                  /\ last.success

\* a matched handler has run on an instance with fields after the operation
\* bound was passed
C3_Witness ==
    /\ Matched
    /\ rt.operation_count > MaxOperations
    /\ Len(BlueprintOf(last.inst).fields) > 0

\* C4: execute_when with a name that matches no handler returns
\* success=false with the "not found" message, makes no transaction call,
\* and leaves the runtime (every field, in_transaction, the snapshot) as
\* it was.
C4_UnknownHandler ==
    [][(/\ last'.op = "runtime_execute_when"
        /\ ~\E j \in 1..Len(WhensOf(last'.inst)) : WhensOf(last'.inst)[j].name = last'.name)
       => /\ ~last'.success
          /\ last'.message = Ptr("When clause not found")
          /\ last'.calls = <<>>
          /\ rt' = rt]_vars

\* an unknown handler was asked of an instance with fields whose transaction
\* is open
C4_Witness ==
    /\ last.op = "runtime_execute_when"
    /\ ~HasHandler(last.inst, last.name)
    /\ ~last.success
    /\ InstanceOf(last.inst).in_transaction
    /\ Len(FieldVector(InstanceOf(last.inst))) > 0

\* C7: commit on an open instance leaves it idle with the snapshot
\* released; rollback on an idle instance changes nothing.
C7_CommitFinality ==
    [][/\ (last'.op = "runtime_commit_transaction" /\ last'.open_before)
          => /\ ~rt'.instances[last'.inst].in_transaction
             /\ rt'.instances[last'.inst].field_snapshot = NULL
             /\ FieldVector(rt'.instances[last'.inst]) = FieldVector(rt.instances[last'.inst])
       /\ (last'.op = "runtime_rollback_transaction" /\ ~last'.open_before)
          => rt' = rt]_vars

\* rollback was called right after a commit that closed a transaction in
\* which a field was changed
C7_Witness ==
    /\ last.op = "runtime_rollback_transaction"
    /\ ~last.open_before
    /\ IsIdle(InstanceOf(last.inst))
    /\ txn[last.inst].sets > 0
    /\ FieldVector(InstanceOf(last.inst)) # txn[last.inst].pre

(***************************************************************************)
(* What a matched handler does to the fields, stated from the handler's    *)
(* text.  NodeCount(e) is the number of evaluation steps of e when the     *)
(* bound is not met; CountBefore(c, actions, j) is the operation count     *)
(* before action j when the call starts at count c and no earlier action   *)
(* met the bound.                                                          *)
(***************************************************************************)
RECURSIVE NodeCount(_)
NodeCount(e) ==
    IF e = NoNode THEN 0
    ELSE IF e.type = "NODE_BINARY_OP" THEN 1 + NodeCount(e.left) + NodeCount(e.right)
    ELSE 1

IsFieldSet(action) == action.type = "NODE_ACTION_SET"

RECURSIVE CountBefore(_, _, _)
CountBefore(c, actions, j) ==
    IF j <= 1 THEN c
    ELSE CountBefore(c, actions, j - 1)
         + (IF IsFieldSet(actions[j - 1]) THEN NodeCount(actions[j - 1].value) ELSE 0)

\* field k is the first field of that name
FirstOfName(fields, k) == \A k2 \in 1..(k - 1) : fields[k2].name # fields[k].name
IsDeclared(fields, name) == \E k \in 1..Len(fields) : fields[k].name = name
\* the field-sets of a handler that store into field k
Writers(fields, actions, k) ==
    {j \in 1..Len(actions) : /\ IsFieldSet(actions[j])
                             /\ actions[j].field = fields[k].name
                             /\ FirstOfName(fields, k)}
SetMax(S) == CHOOSE x \in S : \A y \in S : y <= x

\* the value of e in the environment of r when no bound is met
PureValue(r, e) ==
    runtime_evaluate_expression(
        [r EXCEPT !.operation_count = 0, !.bounds.max_operations = NodeCount(e)], e).value

\* the first handler of instance inst named name
HandlerOf(r, inst, name) ==
    LET whens == r.blueprints[r.instances[inst].blueprint].whens
        j == CHOOSE j \in 1..Len(whens) :
                 /\ whens[j].name = name
                 /\ \A j2 \in 1..(j - 1) : whens[j2].name # name
    IN  whens[j]

\* from r to r2 the fields of instance inst changed as the handler's
\* field-sets say: a field no action stores into keeps its value; a field
\* whose last writer started at or past the bound holds Null; a field whose
\* last writer ended within the bound holds the writer's value
HandlerEffect(r, r2, inst, actions) ==
    LET fields == r.blueprints[r.instances[inst].blueprint].fields
        pre == FieldVector(r.instances[inst])
        post == FieldVector(r2.instances[inst])
        max == r.bounds.max_operations
    IN  /\ Len(post) = Len(pre)
        /\ \A k \in 1..Len(fields) :
             LET W == Writers(fields, actions, k)
             IN  IF W = {} THEN post[k] = pre[k]
                 ELSE LET j == SetMax(W)
                      IN  /\ CountBefore(r.operation_count, actions, j) >= max
                             => post[k] = value_null
                          /\ CountBefore(r.operation_count, actions, j + 1) <= max
                             => post[k] = PureValue(r, actions[j].value)

\* the step is an execute_when that names a handler of the instance
MatchedStep ==
    /\ last'.op = "runtime_execute_when"
    /\ \E j \in 1..Len(WhensOf(last'.inst)) : WhensOf(last'.inst)[j].name = last'.name

HasUnknownFieldSet(fields, actions) ==
    \E j \in 1..Len(actions) :
        IsFieldSet(actions[j]) /\ ~IsDeclared(fields, actions[j].field)

\* C5: a field-set naming an undeclared field changes no field, the other
\* actions of the handler still take effect, the transaction is committed
\* and execute_when returns success=true; a handler made only of such
\* actions leaves every declared field unchanged.
C5_UnknownFieldIsNoOp ==
    [][(/\ MatchedStep
        /\ HasUnknownFieldSet(BlueprintOf(last'.inst).fields,
                              HandlerOf(rt, last'.inst, last'.name).actions))
       => /\ last'.success
          /\ last'.calls = <<"begin", "commit">>
          /\ IsIdle(rt'.instances[last'.inst])
          /\ HandlerEffect(rt, rt', last'.inst,
                           HandlerOf(rt, last'.inst, last'.name).actions)]_vars

\* a handler with an undeclared field-set followed by a declared one has
\* run within the bound and the later field-set changed its field
C5_Witness ==
    /\ Matched
    /\ rt.operation_count <= MaxOperations
    /\ LET fields == BlueprintOf(last.inst).fields
           actions == HandlerOf(rt, last.inst, last.name).actions
       IN  \E j \in 1..Len(actions) : \E j2 \in (j + 1)..Len(actions) :
              /\ IsFieldSet(actions[j]) /\ ~IsDeclared(fields, actions[j].field)
              /\ IsFieldSet(actions[j2]) /\ IsDeclared(fields, actions[j2].field)
              /\ \E k \in 1..Len(fields) :
                    /\ fields[k].name = actions[j2].field
                    /\ FieldVector(InstanceOf(last.inst))[k] # value_null

EarliestNamed(blueprints, name, i) ==
    /\ blueprints[i].name = name
    /\ \A j \in 1..(i - 1) : blueprints[j].name # name

\* C8: every define_blueprint of a blueprint node appends one registry
\* entry, also when the name is already registered, and create_instance
\* binds the new instance to the earliest entry of the name, never a later
\* one.
C8_RedefinitionShadowing ==
    /\ [](\A i \in Instances :
            EarliestNamed(rt.blueprints, BlueprintOf(i).name, InstanceOf(i).blueprint))
    /\ []((last.op = "runtime_create_instance" /\ last.inst # 0)
          => /\ last.inst = Len(rt.instances)
             /\ EarliestNamed(rt.blueprints, last.name, InstanceOf(last.inst).blueprint)
             /\ Len(FieldVector(InstanceOf(last.inst))) = Len(BlueprintOf(last.inst).fields))
    /\ [][(last'.op = "runtime_execute" /\ last'.node.type = "NODE_BLUEPRINT")
          => rt'.blueprints =
                Append(rt.blueprints,
                       [name |-> last'.node.name, fields |-> last'.node.fields,
                        states |-> last'.node.states, whens |-> last'.node.whens])]_vars

\* an instance was created by a name that a later registry entry also has
C8_Witness ==
    /\ last.op = "runtime_create_instance"
    /\ last.inst # 0
    /\ \E j \in 1..Len(rt.blueprints) :
          /\ j > InstanceOf(last.inst).blueprint
          /\ rt.blueprints[j].name = last.name
          /\ rt.blueprints[j] # BlueprintOf(last.inst)

C10_EnvironmentIsAMap ==
    /\ \A i, j \in 1..Len(rt.variable_names) :
          i # j => rt.variable_names[i] # rt.variable_names[j]
    /\ Len(rt.variables) = Len(rt.variable_names)
    /\ Len(rt.variable_names) = Cardinality({n \in VariableNames : assigned[n] # NULL})
    /\ \A n \in VariableNames :
          LET p == runtime_get_variable(rt, n)
          IN  IF assigned[n] = NULL THEN p = NULL
              ELSE p # NULL /\ rt.variables[Deref(p)] = Deref(assigned[n])
    /\ runtime_get_variable(rt, "none") = NULL

\* a name that was already bound has been set again, beside another name
C10_Witness ==
    /\ last.op = "runtime_set_variable"
    /\ last.ptr # NULL
    /\ Len(rt.variable_names) = 2
    /\ rt.variables[1] # rt.variables[2]

(***************************************************************************)
(* Structural failures.                                                    *)
(***************************************************************************)
\* the registry entry a blueprint node defines
EntryOf(node) ==
    [name |-> node.name, fields |-> node.fields,
     states |-> node.states, whens |-> node.whens]

\* C11: execute with a node that is not a blueprint definition, or with no
\* node, returns success=false with a message and leaves the registry
\* unchanged; only a blueprint definition returns success=true and adds an
\* entry.
C11_StructuralFailureOfExecute ==
    [][last'.op = "runtime_execute"
       => IF last'.node.type = "NODE_BLUEPRINT"
          THEN /\ last'.success
               /\ rt'.blueprints = Append(rt.blueprints, EntryOf(last'.node))
          ELSE /\ ~last'.success
               /\ last'.message # NULL
               /\ rt'.blueprints = rt.blueprints]_vars

\* C12: create_instance with a name no registered blueprint has returns no
\* instance and leaves the instance store, the variable environment and the
\* operation counter unchanged.
C12_UnknownBlueprint ==
    [][(/\ last'.op = "runtime_create_instance"
        /\ \A i \in 1..Len(rt.blueprints) : rt.blueprints[i].name # last'.name)
       => /\ last'.inst = 0
          /\ rt'.instances = rt.instances
          /\ rt'.variable_names = rt.variable_names
          /\ rt'.variables = rt.variables
          /\ rt'.operation_count = rt.operation_count
          /\ rt' = rt]_vars

\* create_instance found no blueprint of the name in a runtime that holds
\* another blueprint, an instance, a variable and a positive operation count
C12_Witness ==
    /\ last.op = "runtime_create_instance"
    /\ last.inst = 0
    /\ \A i \in 1..Len(rt.blueprints) : rt.blueprints[i].name # last.name
    /\ Len(rt.blueprints) > 0
    /\ Len(rt.instances) > 0
    /\ Len(rt.variables) > 0
    /\ rt.operation_count > 0

(***************************************************************************)
(* The Resource Governor.                                                  *)
(***************************************************************************)
\* the nodes of e an evaluation visits when it starts at count c under the
\* limit max: a visit that takes the count past the limit goes no deeper
RECURSIVE Visits(_, _, _)
Visits(e, c, max) ==
    IF e = NoNode THEN 0
    ELSE IF c + 1 > max THEN 1
    ELSE IF e.type = "NODE_BINARY_OP"
    THEN LET l == Visits(e.left, c + 1, max)
         IN  1 + l + Visits(e.right, c + 1 + l, max)
    ELSE 1

\* C13: every visit of a non-absent expression node adds exactly one to
\* operation_count, and an expression during whose evaluation the count
\* passes max_operations yields Null, never a normal non-Null value.
C13_ExceededExpressionYieldsNull ==
    [][last'.op = "runtime_evaluate_expression"
       => /\ rt'.operation_count =
                rt.operation_count
                + Visits(last'.node, rt.operation_count, rt.bounds.max_operations)
          /\ rt'.operation_count > rt.bounds.max_operations
             => last'.value = value_null]_vars

(***************************************************************************)
(* Field initialisation.                                                   *)
(***************************************************************************)
\* the last call created an instance and the bound was not exceeded
CreatedWithinBound ==
    /\ last.op = "runtime_create_instance"
    /\ last.inst # 0
    /\ rt.operation_count <= rt.bounds.max_operations

\* C14: create_instance evaluates every field initializer against the
\* Variable Environment only; an identifier naming an earlier field of the
\* blueprint is unbound unless a variable has that name, so the fields
\* [a := 1, b := a + 1] with no variable a give a = 1 and b = Null.
C14_NoForwardFieldVisibility ==
    CreatedWithinBound
    => /\ \A k \in 1..Len(BlueprintOf(last.inst).fields) :
             FieldVector(InstanceOf(last.inst))[k] =
                 PureValue(rt, BlueprintOf(last.inst).fields[k].initial_value)
       /\ (/\ BlueprintOf(last.inst) = EntryOf(NodeP1)
           /\ runtime_get_variable(rt, "a") = NULL)
          => FieldVector(InstanceOf(last.inst)) = <<value_number(Dbl(1)), value_null>>

\* an instance with the fields [a := 1, b := a + 1] was created while no
\* variable a existed
C14_Witness ==
    /\ CreatedWithinBound
    /\ BlueprintOf(last.inst) = EntryOf(NodeP1)
    /\ runtime_get_variable(rt, "a") = NULL
    /\ FieldVector(InstanceOf(last.inst))[1] = value_number(Dbl(1))
    /\ FieldVector(InstanceOf(last.inst))[2] = value_null

(***************************************************************************)
(* The operator table.                                                     *)
(***************************************************************************)
\* the last call evaluated a binary operator over two literals and the
\* bound was not exceeded
EvaluatedOperator ==
    /\ last.op = "runtime_evaluate_expression"
    /\ last.node.type = "NODE_BINARY_OP"
    /\ last.node.left.type = "NODE_LITERAL"
    /\ last.node.right.type = "NODE_LITERAL"
    /\ rt.operation_count <= rt.bounds.max_operations

\* the kind of result the operator table gives for an operator and the
\* kinds of its operands
TableKind(op, l, r) ==
    IF op \in {"TOKEN_PLUS_OP", "TOKEN_PLUS"}
    THEN IF l = "TYPE_NUMBER" /\ r = "TYPE_NUMBER" THEN "TYPE_NUMBER"
         ELSE IF "TYPE_STRING" \in {l, r} THEN "TYPE_STRING"
         ELSE "TYPE_NULL"
    ELSE IF op = "TOKEN_AMPERSAND"
    THEN IF l = "TYPE_STRING" /\ r = "TYPE_STRING" THEN "TYPE_STRING" ELSE "TYPE_NULL"
    ELSE IF op \in {"TOKEN_MINUS", "TOKEN_TIMES", "TOKEN_DIV"}
    THEN IF l = "TYPE_NUMBER" /\ r = "TYPE_NUMBER" THEN "TYPE_NUMBER" ELSE "TYPE_NULL"
    ELSE "TYPE_NULL"

\* C15: for every binary operator and every pair of operand kinds among
\* Number, String, Boolean and Null the kind of the result is the one the
\* operator table gives; every combination the table does not cover yields
\* Null, never a failure.
C15_SilentTypeErrors ==
    EvaluatedOperator
    => last.value.type =
          TableKind(last.node.op, last.node.left.value.type, last.node.right.value.type)

\* a combination the table does not cover was evaluated: a Boolean plus a
\* Number gave Null
C15_Witness ==
    /\ EvaluatedOperator
    /\ IsPlus(last.node.op)
    /\ last.node.left.value.type = "TYPE_BOOLEAN"
    /\ last.node.right.value.type = "TYPE_NUMBER"
    /\ last.value = value_null

\* the text of a literal operand in a concatenation: empty if not a String
OperandText(node) ==
    IF node.value.type = "TYPE_STRING" THEN Deref(node.value.string) ELSE <<>>

\* C16: for operands of any length, + with at least one String operand
\* gives the left text, one space, the right text, and & on two Strings
\* gives the left text followed by the right text; no character is dropped.
C16_ConcatenationIsExact ==
    EvaluatedOperator
    => LET l == last.node.left
           r == last.node.right
       IN  /\ (/\ IsPlus(last.node.op)
               /\ ~(l.value.type = "TYPE_NUMBER" /\ r.value.type = "TYPE_NUMBER")
               /\ "TYPE_STRING" \in {l.value.type, r.value.type})
              => last.value = value_string(OperandText(l) \o <<" ">> \o OperandText(r))
           /\ (/\ last.node.op = "TOKEN_AMPERSAND"
               /\ l.value.type = "TYPE_STRING" /\ r.value.type = "TYPE_STRING")
              => last.value = value_string(OperandText(l) \o OperandText(r))

(***************************************************************************)
(* Value copies.                                                           *)
(***************************************************************************)
\* C17: copy(v) equals v for every kind of Value, an Array included; a
\* literal, which the evaluator returns as a copy, evaluates to a Value
\* equal to the literal's.
C17_CopyEqualsOriginal ==
    (/\ last.op = "runtime_evaluate_expression"
     /\ last.node.type = "NODE_LITERAL"
     /\ rt.operation_count <= rt.bounds.max_operations)
    => last.value = last.node.value

(***************************************************************************)
(* Handler effects.                                                        *)
(***************************************************************************)
\* the operation count before action j of a handler entered in runtime r
RECURSIVE CountAt(_, _, _)
CountAt(r, actions, j) ==
    IF j <= 1 THEN r.operation_count
    ELSE LET c == CountAt(r, actions, j - 1)
         IN  IF IsFieldSet(actions[j - 1])
             THEN c + Visits(actions[j - 1].value, c, r.bounds.max_operations)
             ELSE c

\* the value evaluated for action j of a handler entered in runtime r
EvaluatedFor(r, actions, j) ==
    runtime_evaluate_expression(
        [r EXCEPT !.operation_count = CountAt(r, actions, j)], actions[j].value).value

\* C18: after a matched execute_when every declared field that an action
\* names holds the value evaluated for the last action naming it, every
\* other field holds its value from before the call, and of two declared
\* fields with one name only the first is written.
C18_ActionsInDeclarationOrder ==
    [][MatchedStep
       => LET actions == HandlerOf(rt, last'.inst, last'.name).actions
              fields == BlueprintOf(last'.inst).fields
              pre == FieldVector(rt.instances[last'.inst])
              post == FieldVector(rt'.instances[last'.inst])
          IN  /\ Len(post) = Len(pre)
              /\ \A k \in 1..Len(fields) :
                    LET W == Writers(fields, actions, k)
                    IN  IF W = {} THEN post[k] = pre[k]
                        ELSE post[k] = EvaluatedFor(rt, actions, SetMax(W))]_vars

\* a handler with two field-sets of one field has run within the bound on
\* a blueprint that declares a field name twice: the field holds the value
\* of the later field-set, which differs from the earlier one's, and the
\* second field of the repeated name differs from the first
C18_Witness ==
    /\ Matched
    /\ rt.operation_count <= rt.bounds.max_operations
    /\ LET actions == HandlerOf(rt, last.inst, last.name).actions
           fields == BlueprintOf(last.inst).fields
           post == FieldVector(InstanceOf(last.inst))
       IN  /\ \E k \in 1..Len(fields) :
                 LET W == Writers(fields, actions, k)
                 IN  /\ Cardinality(W) > 1
                     /\ post[k] = PureValue(rt, actions[SetMax(W)].value)
                     /\ \E j \in W : post[k] # PureValue(rt, actions[j].value)
           /\ \E k \in 1..Len(fields) : \E k2 \in (k + 1)..Len(fields) :
                 fields[k].name = fields[k2].name /\ post[k] # post[k2]

(***************************************************************************)
(* The operation counter over a runtime's lifetime.                        *)
(***************************************************************************)
\* the initializers of a blueprint's fields that are expressions
PresentInitializers(fields) ==
    {k \in 1..Len(fields) : fields[k].initial_value # NoNode}

\* C19: operation_count never decreases and no call of execute,
\* create_instance or execute_when resets it; once it has exceeded
\* max_operations, every instance created later has Null in all its fields
\* and every later field-set stores Null.
C19_CounterIsNeverReset ==
    /\ [][rt'.operation_count >= rt.operation_count]_vars
    /\ [][(/\ rt.operation_count > rt.bounds.max_operations
           /\ last'.op = "runtime_create_instance"
           /\ last'.inst # 0)
          => \A k \in 1..Len(FieldVector(rt'.instances[last'.inst])) :
                FieldVector(rt'.instances[last'.inst])[k] = value_null]_vars
    /\ [][(rt.operation_count > rt.bounds.max_operations /\ MatchedStep)
          => LET actions == HandlerOf(rt, last'.inst, last'.name).actions
                 fields == BlueprintOf(last'.inst).fields
             IN  \A k \in 1..Len(fields) :
                    IF Writers(fields, actions, k) = {}
                    THEN FieldVector(rt'.instances[last'.inst])[k] =
                             FieldVector(rt.instances[last'.inst])[k]
                    ELSE FieldVector(rt'.instances[last'.inst])[k] = value_null]_vars

\* an instance whose fields have initializers was created after the count
\* had exceeded the bound, beside an earlier instance of the same blueprint
\* that holds a value other than Null
C19_Witness ==
    /\ last.op = "runtime_create_instance"
    /\ last.inst # 0
    /\ PresentInitializers(BlueprintOf(last.inst).fields) # {}
    /\ rt.operation_count - Cardinality(PresentInitializers(BlueprintOf(last.inst).fields))
          > rt.bounds.max_operations
    /\ \E i \in Instances :
          /\ InstanceOf(i).blueprint = InstanceOf(last.inst).blueprint
          /\ \E k \in 1..Len(FieldVector(InstanceOf(i))) :
                FieldVector(InstanceOf(i))[k] # value_null

(***************************************************************************)
(* Instance isolation.                                                     *)
(***************************************************************************)
\* C20: execute_when on one instance leaves every other instance (field
\* vector, transaction flag, snapshot), the Variable Environment and the
\* Blueprint Registry unchanged; beside the target instance it changes
\* operation_count only.
C20_InstanceIsolation ==
    [][last'.op = "runtime_execute_when"
       => /\ Len(rt'.instances) = Len(rt.instances)
          /\ \A i \in 1..Len(rt.instances) :
                i # last'.inst => rt'.instances[i] = rt.instances[i]
          /\ rt'.instances[last'.inst].blueprint = rt.instances[last'.inst].blueprint
          /\ rt'.variable_names = rt.variable_names
          /\ rt'.variables = rt.variables
          /\ rt'.blueprints = rt.blueprints
          /\ rt'.bounds = rt.bounds
          /\ rt'.recursion_depth = rt.recursion_depth]_vars

\* a handler has changed a field of one of two instances of one blueprint:
\* the two field vectors differ, and a variable is bound
C20_Witness ==
    /\ Matched
    /\ Len(rt.instances) = 2
    /\ InstanceOf(1).blueprint = InstanceOf(2).blueprint
    /\ FieldVector(InstanceOf(1)) # FieldVector(InstanceOf(2))
    /\ Len(rt.variables) > 0
    /\ \E k \in 1..Len(BlueprintOf(last.inst).fields) :
          /\ Writers(BlueprintOf(last.inst).fields,
                     HandlerOf(rt, last.inst, last.name).actions, k) # {}
          /\ FieldVector(InstanceOf(last.inst))[k] # FieldVector(InstanceOf(3 - last.inst))[k]

(***************************************************************************)
(* Capacity of the registry and of the instance store.                     *)
(***************************************************************************)
\* C21: after any sequence of execute and create_instance calls the number
\* of registered blueprints never exceeds the 64 slots of the registry and
\* the number of instances never exceeds the 64 slots of the instance
\* store: no entry is written past the allocated capacity.
C21_WithinCapacity ==
    /\ Len(rt.blueprints) <= BlueprintSlots
    /\ Len(rt.instances) <= InstanceSlots

====
